---- MODULE Spec2Model ----
(***************************************************************************)
(* A model of microscopium/features.py: the feature extractors that turn   *)
(* an image into a (feature vector, name list) pair.                       *)
(*                                                                         *)
(* Representation.                                                         *)
(*  - An array is a record [ndim, h, w, px]: px is the array ravelled in   *)
(*    C order (index 1 is element [0, 0]); a 3-D array has depth 1.        *)
(*  - A float is a fixed-point integer.  Entries of a property table are   *)
(*    in units of 1/Milli; the output of mquantiles and every entry of a   *)
(*    feature vector are in units of 1/(Milli * QDen), which makes the     *)
(*    interpolation of mquantiles exact.                                   *)
(*  - A quantile q is written as the integer 100 * q.                      *)
(*  - A string built by formatting is a record [s, i]: the format string   *)
(*    and the integer formatted into it (None when there is none).         *)
(*  - A feature name is a record [prefix, fmt, strs, nums]: the strings    *)
(*    put in front of it (outermost first), the format string, and the     *)
(*    strings and the numbers formatted into it.                           *)
(*  - A call either returns (status "ok") or raises (status is the name of *)
(*    the exception).                                                      *)
(***************************************************************************)
EXTENDS Integers, Sequences, FiniteSets, TLC

VARIABLES pc, call, args, ret, loc

vars == <<pc, call, args, ret, loc>>

-----------------------------------------------------------------------------
(* Bounds of the model *)

\* widest single-row image
MaxW == 5
\* largest pixel intensity
MaxVal == 2
\* largest sample_size
MaxSample == 2
\* largest random seed
MaxSeed == 2
\* largest number of neighbours n
MaxN == 3
\* largest max_value of the histogram
MaxMaxValue == 2
\* largest number of channels of a multi-channel image
MaxChan == 2
\* widest single-row image of the extractors that take two images
MaxPairW == 3

-----------------------------------------------------------------------------
(* Arithmetic and sequences *)

Milli == 10 * 100
\* aleph = n*p + alphap + p*(1 - alphap - betap) with alphap = betap = 2/5 and
\* p in hundredths is a multiple of 1/500
QDen == 5 * 100
Float(n) == n * Milli * QDen
\* pi in units of 1/Milli
PiMilli == 3142

\* None, where an integer is expected
None == 0 - 1

Min2(a, b) == IF a < b THEN a ELSE b
Max2(a, b) == IF a > b THEN a ELSE b
Abs(a) == IF a < 0 THEN -a ELSE a

SetMin(S) == CHOOSE x \in S : \A y \in S : x <= y
SetMax(S) == CHOOSE x \in S : \A y \in S : x >= y

RECURSIVE SumSeq(_)
SumSeq(s) == IF s = <<>> THEN 0 ELSE Head(s) + SumSeq(Tail(s))

RECURSIVE Concat(_)
Concat(ss) == IF ss = <<>> THEN <<>> ELSE Head(ss) \o Concat(Tail(ss))

\* the elements of a set of integers in increasing order
RECURSIVE SetToSeq(_)
SetToSeq(S) == IF S = {} THEN <<>>
               ELSE LET m == SetMin(S) IN <<m>> \o SetToSeq(S \ {m})

RECURSIVE Insert(_, _)
Insert(x, s) == IF s = <<>> THEN <<x>>
                ELSE IF x <= Head(s) THEN <<x>> \o s
                ELSE <<Head(s)>> \o Insert(x, Tail(s))

\* np.sort
RECURSIVE Sort(_)
Sort(s) == IF s = <<>> THEN <<>> ELSE Insert(Head(s), Sort(Tail(s)))

\* itertools.product(xs, ys): the first factor varies slowest
Product(xs, ys) ==
    [k \in 1..(Len(xs) * Len(ys)) |->
        <<xs[((k - 1) \div Len(ys)) + 1], ys[((k - 1) % Len(ys)) + 1]>>]

-----------------------------------------------------------------------------
(* Arrays *)

Size(a) == a.h * a.w
Row(a, i) == (i - 1) \div a.w
Col(a, i) == (i - 1) % a.w
Idx(a, r, c) == r * a.w + c + 1
InBounds(a, r, c) == r >= 0 /\ r < a.h /\ c >= 0 /\ c < a.w
Foreground(b) == {i \in 1..Size(b) : b.px[i]}
MaskOf(a, S) == [ndim |-> a.ndim, h |-> a.h, w |-> a.w,
                 px |-> [i \in 1..Size(a) |-> i \in S]]

\* skmorph.disk(r) (and the middle plane of skmorph.ball(r)) as offsets
disk(r) == {d \in (-r..r) \X (-r..r) : d[1] * d[1] + d[2] * d[2] <= r * r}

\* nd.binary_opening(bin_im, selem): an erosion then a dilation, the outside
\* of the array counting as background.  A depth-1 volume is emptied by any
\* ball of radius >= 1.
binary_opening(b, r) ==
    LET fg == Foreground(b)
        eroded == IF b.ndim = 3 /\ r > 0 THEN {}
                  ELSE {i \in fg : \A d \in disk(r) :
                          /\ InBounds(b, Row(b, i) + d[1], Col(b, i) + d[2])
                          /\ Idx(b, Row(b, i) + d[1], Col(b, i) + d[2]) \in fg}
        dilated == {j \in 1..Size(b) : \E d \in disk(r) :
                          /\ InBounds(b, Row(b, j) - d[1], Col(b, j) - d[2])
                          /\ Idx(b, Row(b, j) - d[1], Col(b, j) - d[2]) \in eroded}
    IN MaskOf(b, dilated)

Adjacent(a, i, j) ==
    \/ Row(a, i) = Row(a, j) /\ Abs(Col(a, i) - Col(a, j)) = 1
    \/ Col(a, i) = Col(a, j) /\ Abs(Row(a, i) - Row(a, j)) = 1

RECURSIVE Grow(_, _, _)
Grow(a, fg, S) ==
    LET T == S \cup {j \in fg : \E i \in S : Adjacent(a, i, j)}
    IN IF T = S THEN S ELSE Grow(a, fg, T)

\* the connected components of fg, by increasing first pixel
RECURSIVE Components(_, _)
Components(a, fg) ==
    IF fg = {} THEN <<>>
    ELSE LET c == Grow(a, fg, {SetMin(fg)})
         IN <<c>> \o Components(a, fg \ c)

\* nd.label(bin_im): [lab, n] with lab the ravelled label image; objects are
\* the connected components under face adjacency, numbered from 1 in the
\* order in which a raster scan meets them; 0 is the background
label(b) ==
    LET comps == Components(b, Foreground(b))
    IN [lab |-> [i \in 1..Size(b) |->
                    IF \E k \in 1..Len(comps) : i \in comps[k]
                    THEN CHOOSE k \in 1..Len(comps) : i \in comps[k]
                    ELSE 0],
        n |-> Len(comps)]

\* im > t for a scalar t
Above(im, t) ==
    [ndim |-> im.ndim, h |-> im.h, w |-> im.w,
     px |-> [i \in 1..Size(im) |-> im.px[i] > t]]

-----------------------------------------------------------------------------
(* scipy.stats.mstats.mquantiles(table, quantiles, axis=0) *)

Column(table, c) == [r \in 1..Len(table) |-> table[r][c]]

\* _quantiles1D on n >= 1 values, in units of 1/QDen of the values' unit
Quantile(data, P) ==
    LET x == Sort(data)
        n == Len(x)
        aleph == 5 * n * P + 200 + P
        clipped == Min2(Max2(aleph, QDen), QDen * (n - 1))
        k == clipped \div QDen
        gamma == Max2(0, Min2(aleph - QDen * k, QDen))
    IN IF n = 1 THEN QDen * x[1]
       ELSE (QDen - gamma) * x[k] + gamma * x[k + 1]

\* The result has shape (len(quantiles), ncols): row q holds quantile q of
\* every column.  Of an empty table every entry is masked and its data is
\* np.empty, uninitialized: junk[q][c] stands for what memory held.
mquantiles(table, ncols, quantiles, junk) ==
    [q \in 1..Len(quantiles) |->
        [c \in 1..ncols |->
            IF Len(table) = 0 THEN junk[q][c]
            ELSE Quantile(Column(table, c), quantiles[q])]]

\* array.T of a 2-D array given as a sequence of rows
Transpose(m, ncols) ==
    [c \in 1..ncols |-> [r \in 1..Len(m) |-> m[r][c]]]

\* array.ravel() of a 2-D array given as a sequence of rows
Ravel(m) == Concat(m)

DefaultQuantiles == <<5, 25, 50, 75, 95>>

-----------------------------------------------------------------------------
(* Feature names *)

Str(s) == [s |-> s, i |-> None]
Fmt(s, i) == [s |-> s, i |-> i]

Name(fmt, strs, nums) ==
    [prefix |-> <<>>, fmt |-> fmt, strs |-> strs, nums |-> nums]
\* prefix + name, for every name of a list
Prefixed(p, names) ==
    [k \in 1..Len(names) |->
        [names[k] EXCEPT !.prefix = <<p>> \o names[k].prefix]]

Raise(e) == [status |-> e, fs |-> <<>>, names |-> <<>>]

-----------------------------------------------------------------------------
(* numpy.random.RandomState.randint(low, high, size): raises ValueError when *)
(* low >= high; stream is the generator's raw output                        *)

\* normalise_random_state(random_seed): the generator a seed stands for, as
\* the sequence of raw numbers it yields
RandomState(seed) == [i \in 1..(MaxSample + 1) |-> seed + (i - 1) * (seed + 1)]

randint(low, high, size, stream) ==
    IF low >= high THEN [status |-> "ValueError", v |-> <<>>]
    ELSE [status |-> "ok",
          v |-> [i \in 1..size |-> low + (stream[i] % (high - low))]]

-----------------------------------------------------------------------------
(* skimage.measure.regionprops(lab_im, intensity_image=im) *)

\* getattr(objects[j], prop), j counted from 0.  area and the intensity
\* statistics are computed; the real-valued shape descriptors (eccentricity,
\* euler_number, extent, solidity) are supplied by the descriptor table
\* shape, an input.
getattr(lab, im, j, prop, shape) ==
    LET pix == {i \in 1..Len(lab) : lab[i] = j + 1}
        vals == {im.px[i] : i \in pix}
        total == SumSeq([k \in 1..Cardinality(pix) |-> im.px[SetToSeq(pix)[k]]])
    IN CASE prop = "area" -> Milli * Cardinality(pix)
         [] prop = "min_intensity" -> Milli * SetMin(vals)
         [] prop = "max_intensity" -> Milli * SetMax(vals)
         [] prop = "mean_intensity" -> (Milli * total) \div Cardinality(pix)
         [] OTHER -> shape[j + 1][prop]

prop_names(ndim) ==
    IF ndim = 2
    THEN <<"area", "eccentricity", "euler_number", "extent",
           "min_intensity", "mean_intensity", "max_intensity", "solidity">>
    ELSE <<"area", "euler_number", "extent",
           "min_intensity", "mean_intensity", "max_intensity", "solidity">>

-----------------------------------------------------------------------------
(* object_features(bin_im, im, erode, sample_size, random_seed) *)

object_features_names(props, quantiles) ==
    <<Name("num-objs", <<>>, <<>>)>> \o
    [k \in 1..(Len(props) * Len(quantiles)) |->
        Name("%s-percentile%i", <<Str(Product(props, quantiles)[k][1])>>,
             <<Product(props, quantiles)[k][2]>>)]

\* sample_indices: np.arange(n_objs) when sample_size is None, else
\* random.randint(0, n_objs, size=sample_size)
SampleIndices(n_objs, sample_size, stream) ==
    IF sample_size = None
    THEN [status |-> "ok", v |-> [i \in 1..n_objs |-> i - 1]]
    ELSE randint(0, n_objs, sample_size, stream)

\* properties[i] = [getattr(objects[j], prop) for prop in prop_names], for
\* i, j in enumerate(sample_indices)
Properties(lab, im, sample_indices, props, shape) ==
    [i \in 1..Len(sample_indices) |->
        [c \in 1..Len(props) |->
            getattr(lab, im, sample_indices[i], props[c], shape)]]

\* feature_quantiles = mquantiles(properties, quantiles, axis=0).T
feature_quantiles(properties, ncols, quantiles, junk) ==
    Transpose(mquantiles(properties, ncols, quantiles, junk), ncols)

\* fs = np.concatenate([np.array([n_objs]), feature_quantiles.ravel()])
FeatureVector(n_objs, properties, ncols, quantiles, junk) ==
    <<Float(n_objs)>> \o
    Ravel(feature_quantiles(properties, ncols, quantiles, junk))

\* the value returned, with the locals it was computed from
ObjectFeaturesResult(opened, n_objs, props, quantiles, properties, junk) ==
    [status |-> "ok",
     fs |-> FeatureVector(n_objs, properties, Len(props), quantiles, junk),
     names |-> object_features_names(props, quantiles),
     n_objs |-> n_objs,
     bin |-> opened,
     props |-> props,
     quantiles |-> quantiles,
     properties |-> properties]

\* from the sampling on.  regionprops refuses an intensity image whose
\* shape is not the label image's when it builds the first object.
ObjectFeaturesSampled(opened, im, lb, drawn, o) ==
    IF drawn.status # "ok" THEN Raise(drawn.status)
    ELSE IF lb.n > 0 /\ ~(opened.h = im.h /\ opened.w = im.w)
    THEN Raise("ValueError")
    ELSE ObjectFeaturesResult(opened, lb.n, prop_names(im.ndim),
                              DefaultQuantiles,
                              Properties(lb.lab, im, drawn.v,
                                         prop_names(im.ndim), o.shape),
                              o.junk)

\* from the labelling on
ObjectFeaturesLabelled(opened, im, lb, sample_size, o) ==
    ObjectFeaturesSampled(opened, im, lb,
                          SampleIndices(lb.n, sample_size, o.stream), o)

object_features(bin_im, im, erode, sample_size, o) ==
    IF im.ndim \notin {2, 3} THEN Raise("ValueError")
    ELSE IF erode > 0
    THEN ObjectFeaturesLabelled(binary_opening(bin_im, erode), im,
                                label(binary_opening(bin_im, erode)),
                                sample_size, o)
    ELSE ObjectFeaturesLabelled(bin_im, im, label(bin_im), sample_size, o)

-----------------------------------------------------------------------------
(* Thresholds *)

Scalar(t) == [kind |-> "scalar", v |-> <<t>>]
Tuple(ts) == [kind |-> "tuple", v |-> ts]
NoThreshold == [kind |-> "none", v |-> <<>>]

\* im > threshold under numpy's broadcasting rules.  A tuple is an array of
\* shape (T,) and is matched against the last axis of im: equal lengths
\* compare column c with entry c, a last axis of length 1 is stretched to
\* (.., T), anything else raises ValueError.
Greater(im, threshold) ==
    LET ts == threshold.v
        T == Len(ts)
    IN IF threshold.kind = "scalar" \/ T = 1
       THEN [status |-> "ok", mask |-> Above(im, ts[1])]
       ELSE IF T = im.w
       THEN [status |-> "ok",
             mask |-> [ndim |-> im.ndim, h |-> im.h, w |-> im.w,
                       px |-> [i \in 1..Size(im) |->
                                 im.px[i] > ts[Col(im, i) + 1]]]]
       ELSE IF im.w = 1
       THEN [status |-> "ok",
             mask |-> [ndim |-> im.ndim, h |-> im.h, w |-> T,
                       px |-> [i \in 1..(im.h * T) |->
                                 im.px[((i - 1) \div T) + 1] > ts[((i - 1) % T) + 1]]]]
       ELSE [status |-> "ValueError", mask |-> Above(im, 0)]

\* skimage.filters.threshold_otsu on an integer image: the bins are the
\* integers min..max, and the threshold is the first bin centre t < max that
\* maximises the between-class variance
\*     w0 * w1 * (m0 - m1)^2 = (s0 * w1 - s1 * w0)^2 / (w0 * w1)
\* of the classes (<= t) and (> t).  An image of a single value has that
\* value for threshold.
threshold_otsu(im) ==
    LET vals == {im.px[i] : i \in 1..Size(im)}
        lo == SetMin(vals)
        hi == SetMax(vals)
        w0(t) == Cardinality({i \in 1..Size(im) : im.px[i] <= t})
        w1(t) == Size(im) - w0(t)
        s0(t) == SumSeq([i \in 1..Size(im) |->
                            IF im.px[i] <= t THEN im.px[i] ELSE 0])
        s1(t) == SumSeq([i \in 1..Size(im) |->
                            IF im.px[i] > t THEN im.px[i] ELSE 0])
        num(t) == (s0(t) * w1(t) - s1(t) * w0(t)) * (s0(t) * w1(t) - s1(t) * w0(t))
        den(t) == w0(t) * w1(t)
        better(t, u) == num(t) * den(u) > num(u) * den(t)
    IN IF lo = hi THEN lo
       ELSE CHOOSE t \in lo..(hi - 1) :
              /\ \A u \in lo..(hi - 1) : ~better(u, t)
              /\ \A u \in lo..(t - 1) : better(t, u)

\* im > skimage.filters.threshold_local(im, adaptive_t_radius): the local
\* threshold is a Gaussian-weighted mean of the neighbourhood.  With a block
\* far wider than the image the threshold surface is flat; its level, which
\* lies between the least and the greatest intensity, is the input `level`.
AboveLocal(im, level) ==
    LET vals == {im.px[i] : i \in 1..Size(im)}
    IN Above(im, Min2(Max2(level, SetMin(vals)), SetMax(vals)))

-----------------------------------------------------------------------------
(* intensity_object_features(im, threshold, adaptive_t_radius, sample_size,  *)
(*                           random_seed)                                    *)

\* object_features is called with its default erode
DefaultErode == 2

\* one feature block: f, names = object_features(tim, im, ...)
OneBlock(tim, b) ==
    IF b.status # "ok" THEN Raise(b.status)
    ELSE [status |-> "ok", fs |-> b.fs, names |-> b.names,
          tims |-> <<tim>>, blocks |-> <<b>>]

\* the Otsu block alone, its names prefixed
OtsuBlock(tim1, b1) ==
    [status |-> "ok", fs |-> b1.fs,
     names |-> Prefixed(Str("otsu-threshold-"), b1.names),
     tims |-> <<tim1>>, blocks |-> <<b1>>]

\* f = np.concatenate([f1, f2]); names = names1 + names2
TwoBlocks(tim1, b1, tim2, b2) ==
    IF b2.status # "ok" THEN Raise(b2.status)
    ELSE [status |-> "ok", fs |-> b1.fs \o b2.fs,
          names |-> Prefixed(Str("otsu-threshold-"), b1.names) \o
                    Prefixed(Str("adaptive-threshold-"), b2.names),
          tims |-> <<tim1, tim2>>, blocks |-> <<b1, b2>>]

\* threshold is None: the Otsu block, and for a 2-D image the adaptive one
AutoThreshold(im, tim1, b1, sample_size, o) ==
    IF b1.status # "ok" THEN Raise(b1.status)
    ELSE IF im.ndim # 2 THEN OtsuBlock(tim1, b1)
    ELSE TwoBlocks(tim1, b1, AboveLocal(im, o.level),
                   object_features(AboveLocal(im, o.level), im, DefaultErode,
                                   sample_size, o))

\* threshold is given: tim = im > threshold
GivenThreshold(im, g, sample_size, o) ==
    IF g.status # "ok" THEN Raise(g.status)
    ELSE OneBlock(g.mask,
                  object_features(g.mask, im, DefaultErode, sample_size, o))

intensity_object_features(im, threshold, sample_size, o) ==
    IF threshold.kind = "none"
    THEN AutoThreshold(im, Above(im, threshold_otsu(im)),
                       object_features(Above(im, threshold_otsu(im)), im,
                                       DefaultErode, sample_size, o),
                       sample_size, o)
    ELSE GivenThreshold(im, Greater(im, threshold), sample_size, o)

-----------------------------------------------------------------------------
(* default_feature_map(image, threshold, channels, channel_names,           *)
(*                     sample_size, random_seed)                            *)

NoList == [kind |-> "none", v |-> <<>>]
List(xs) == [kind |-> "list", v |-> xs]

\* range(image.shape[-1])
AllChannels(image) == [k \in 1..Len(image) |-> k - 1]

\* ['chan{}'.format(i) for i in channels]
DefaultChannelNames(channels) ==
    [k \in 1..Len(channels) |-> Fmt("chan{}", channels[k])]

\* zip(images, channel_names) stops at the shorter of the two
ZipLen(images, names) == Min2(Len(images), Len(names))

\* np.concatenate(all_fs), all_names: blocks[k] is what
\* intensity_object_features gave for the k-th pair of the zip; the first
\* block that raised ends the call, and np.concatenate raises ValueError on
\* an empty list
Concatenated(chans, images, cnames, blocks) ==
    IF \E k \in 1..Len(blocks) : blocks[k].status # "ok"
    THEN Raise(blocks[SetMin({k \in 1..Len(blocks) :
                                 blocks[k].status # "ok"})].status)
    ELSE IF Len(blocks) = 0 THEN Raise("ValueError")
    ELSE [status |-> "ok",
          fs |-> Concat([k \in 1..Len(blocks) |-> blocks[k].fs]),
          names |-> Concat([k \in 1..Len(blocks) |->
                              Prefixed(cnames[k], blocks[k].names)]),
          channels |-> chans,
          images |-> images,
          channel_names |-> cnames,
          blocks |-> blocks]

\* the loop over zip(images, channel_names): every image is given the whole
\* of `threshold`
PerChannel(chans, images, cnames, threshold, sample_size, o) ==
    Concatenated(chans, images, cnames,
                 [k \in 1..ZipLen(images, cnames) |->
                     intensity_object_features(images[k], threshold,
                                               sample_size, o)])

\* images = [np.array(image[..., i]) for i in channels], and the names
Selected(image, chans, channel_names, threshold, sample_size, o) ==
    PerChannel(chans,
               [k \in 1..Len(chans) |-> image[chans[k] + 1]],
               IF channel_names.kind = "none" THEN DefaultChannelNames(chans)
               ELSE channel_names.v,
               threshold, sample_size, o)

default_feature_map(image, threshold, channels, channel_names, sample_size, o) ==
    Selected(image,
             IF channels.kind = "none" THEN AllChannels(image) ELSE channels.v,
             channel_names, threshold, sample_size, o)

-----------------------------------------------------------------------------
(* Vector geometry.  The extractors below are applied to single-row images, *)
(* where every centroid lies on row 0: a point is its column coordinate in  *)
(* half pixels, and a vector from one centroid to another is a signed       *)
(* length along the row.                                                    *)

\* normalize_vectors, one vector: divided by its norm, a 0-vector unchanged;
\* the result is in units of 1/Milli
normalize_vectors(v) ==
    LET v_norm == IF Abs(v) = 0 THEN 1 ELSE Abs(v)
    IN (Milli * v) \div v_norm

\* np.arccos of a cosine in -1, 0, 1 (in units of 1/Milli)
arccos(c) == IF c = Milli THEN 0
             ELSE IF c = -Milli THEN PiMilli
             ELSE PiMilli \div 2
\* np.sin and np.cos of 0, pi/2 and pi; sin(pi) is 1.2e-16, which is 0 here
sin(a) == IF a = PiMilli \div 2 THEN Milli ELSE 0
cos(a) == IF a = 0 THEN Milli ELSE IF a = PiMilli THEN -Milli ELSE 0

\* triplet_angles(points, indices): one angle per row of indices, which is
\* read at columns 0, 1 and 2 and raises IndexError if it has fewer columns
triplet_angles(points, indices) ==
    IF \E q \in 1..Len(indices) : Len(indices[q]) < 3
    THEN [status |-> "IndexError", v |-> <<>>]
    ELSE [status |-> "ok",
          v |-> [q \in 1..Len(indices) |->
                   LET roots == points[indices[q][1] + 1]
                       leaf1 == points[indices[q][2] + 1]
                       leaf2 == points[indices[q][3] + 1]
                       u == normalize_vectors(leaf1 - roots)
                       v == normalize_vectors(leaf2 - roots)
                       cosines == (u * v) \div Milli
                       clamped == IF cosines > Milli THEN Milli
                                  ELSE IF cosines < -Milli THEN -Milli
                                  ELSE cosines
                   IN arccos(clamped)]]

\* indices[:, :3]
FirstColumns(indices, k) ==
    [q \in 1..Len(indices) |-> SubSeq(indices[q], 1, Min2(k, Len(indices[q])))]

\* [p.centroid for p in measure.regionprops(lab_im)]: the column coordinate
\* of each object's centroid, in half pixels
Centroids(lb) ==
    [j \in 1..lb.n |->
        LET pix == {i \in 1..Len(lb.lab) : lb.lab[i] = j}
        IN (2 * SumSeq([k \in 1..Cardinality(pix) |-> SetToSeq(pix)[k] - 1]))
              \div Cardinality(pix)]

\* the k <= len(X) nearest points of X to each point of X, the point itself
\* first, by increasing distance.  The order of two neighbours at the same
\* distance is the tree's: ties[i] says whether, for point i, the one of
\* lower index comes first.
NearestFirst(X, k, ties) ==
    LET key(i, j) == IF j = i THEN 0
                     ELSE 2 * Abs(X[j] - X[i])
                          + (IF (j < i) = ties[i] THEN 0 ELSE 1)
        order(i) == LET keys == SetToSeq({key(i, j) : j \in 1..Len(X)})
                    IN [r \in 1..k |->
                          CHOOSE j \in 1..Len(X) : key(i, j) = keys[r]]
    IN [status |-> "ok",
        indices |-> [i \in 1..Len(X) |-> [r \in 1..k |-> order(i)[r] - 1]],
        distances |-> [i \in 1..Len(X) |->
                         [r \in 1..k |->
                            (Milli * Abs(X[order(i)[r]] - X[i])) \div 2]]]

NoNeighbors == [status |-> "ValueError", distances |-> <<>>, indices |-> <<>>]

\* a kneighbors that answers with the neighbours there are when asked for
\* more than there are points
kneighbors_truncating(X, k, ties) ==
    IF Len(X) = 0 THEN NoNeighbors
    ELSE NearestFirst(X, Min2(k, Len(X)), ties)

\* NearestNeighbors(n_neighbors=k).fit(X).kneighbors(X): fit raises
\* ValueError for an empty X, kneighbors for k > len(X)
kneighbors(X, k, ties) ==
    IF Len(X) = 0 \/ k > Len(X) THEN NoNeighbors
    ELSE NearestFirst(X, k, ties)

-----------------------------------------------------------------------------
(* nearest_neighbors(lab_im, n, quantiles) *)

\* the column names with range(1, n) for range(1, n + 1)
colnames_short(n) ==
    <<Str("sin-theta"), Str("cos-theta"), Str("theta")>> \o
    [i \in 1..(n - 1) |-> Fmt("d-neighbor-%i-", i)]

\* ['sin-theta', 'cos-theta', 'theta'] + ['d-neighbor-%i-' % i for i in range(1, n + 1)]
colnames(n) ==
    <<Str("sin-theta"), Str("cos-theta"), Str("theta")>> \o
    [i \in 1..n |-> Fmt("d-neighbor-%i-", i)]

nearest_neighbors_names(cols, quantiles) ==
    [k \in 1..(Len(cols) * Len(quantiles)) |->
        Name("%s-percentile-%i", <<Product(cols, quantiles)[k][1]>>,
             <<Product(cols, quantiles)[k][2]>>)]

\* mquantiles(features, quantiles, axis=0).ravel()
nearest_neighbors_quantiles(features, ncols, quantiles) ==
    Ravel(mquantiles(features, ncols, quantiles, <<>>))

\* angles[angles > np.pi] = 2 * np.pi - angles[angles > np.pi]
FoldAngles(angles) ==
    [q \in 1..Len(angles) |->
        IF angles[q] > PiMilli THEN 2 * PiMilli - angles[q] ELSE angles[q]]

\* distances[:, 0] = angles; features = np.hstack((sines, cosines, distances))
Features(angles, distances) ==
    [q \in 1..Len(distances) |->
        <<sin(angles[q]), cos(angles[q])>> \o
        [distances[q] EXCEPT ![1] = angles[q]]]

NeighborsResult(features, n, quantiles) ==
    [status |-> "ok",
     fs |-> nearest_neighbors_quantiles(features, Len(features[1]), quantiles),
     names |-> nearest_neighbors_names(colnames(n), quantiles),
     n_objs |-> Len(features),
     features |-> features,
     colnames |-> colnames(n)]

WithAngles(nbrs, tri, n, quantiles) ==
    IF tri.status # "ok" THEN Raise(tri.status)
    ELSE NeighborsResult(Features(FoldAngles(tri.v), nbrs.distances), n,
                         quantiles)

WithNeighbors(centroids, nbrs, n, quantiles) ==
    IF nbrs.status # "ok" THEN Raise(nbrs.status)
    ELSE WithAngles(nbrs,
                    triplet_angles(centroids, FirstColumns(nbrs.indices, 3)),
                    n, quantiles)

WithCentroids(centroids, n, quantiles, ties) ==
    WithNeighbors(centroids, kneighbors(centroids, n + 1, ties), n, quantiles)

nearest_neighbors(lab_im, n, quantiles, ties) ==
    WithCentroids(Centroids(label(lab_im)), n, quantiles, ties)

-----------------------------------------------------------------------------
(* fraction_positive(bin_im, positive_im, erode, overlap_thresh, bin_name,   *)
(*                   positive_name)                                          *)
(* overlap_thresh is written in hundredths.  The value returned is a ratio   *)
(* of two counts: fs holds it rounded down to the fixed-point unit, and nan  *)
(* is TRUE when it is 0/0.                                                   *)

\* sparse.coo_matrix((np.ones(size), (rows, cols))).todense(): the shape is
\* (max(rows) + 1, max(cols) + 1) and entry [r][c] counts the positions k
\* with rows[k] = r and cols[k] = c; it is indexed from 0 here
coo_matrix(rows, cols) ==
    LET nr == SetMax({rows[k] : k \in 1..Len(rows)}) + 1
        nc == SetMax({cols[k] : k \in 1..Len(cols)}) + 1
    IN [r \in 0..(nr - 1) |->
          [c \in 0..(nc - 1) |->
             Cardinality({k \in 1..Len(rows) : rows[k] = r /\ cols[k] = c})]]

NCols(counts) == Cardinality(DOMAIN counts[0])
NRows(counts) == Cardinality(DOMAIN counts)
RowSum(counts, r) == SumSeq([c \in 1..NCols(counts) |-> counts[r][c - 1]])

\* means[1:] > overlap_thresh, as the set of rows where it holds
\* (means = counts[:, 1] / np.sum(counts, axis=1))
PositiveRows(counts, overlap_thresh) ==
    {r \in 1..(NRows(counts) - 1) :
        100 * counts[r][1] > overlap_thresh * RowSum(counts, r)}

\* positive_im.ravel().astype(int)
AsInt(p) == [i \in 1..Size(p) |-> IF p.px[i] THEN 1 ELSE 0]

\* means = counts[:, 1] / ...; f = np.array([np.mean(means[1:] > overlap_thresh)])
\* counts[:, 1] raises IndexError when counts has a single column
FractionOf(counts, erode, overlap_thresh) ==
    IF NCols(counts) < 2 THEN Raise("IndexError")
    ELSE [status |-> "ok",
          fs |-> <<IF NRows(counts) = 1 THEN 0
                   ELSE (Float(1) * Cardinality(PositiveRows(counts,
                                                   overlap_thresh)))
                        \div (NRows(counts) - 1)>>,
          nan |-> (NRows(counts) = 1),
          names |-> <<Name("frac-%s-pos-%s-erode-%i-thresh-%.2f",
                           <<Str("nuclei"), Str("tf")>>,
                           <<erode, overlap_thresh>>)>>,
          counts |-> counts]

fraction_positive(bin_im, positive_im, erode, overlap_thresh) ==
    IF erode > 0
    THEN FractionOf(coo_matrix(label(binary_opening(bin_im, erode)).lab,
                               AsInt(binary_opening(positive_im, erode))),
                    erode, overlap_thresh)
    ELSE FractionOf(coo_matrix(label(bin_im).lab, AsInt(positive_im)),
                    erode, overlap_thresh)

-----------------------------------------------------------------------------
(* nuclei_per_cell_histogram(nuc_im, cell_im, max_value) *)

\* np.bincount(xs, minlength): indexed from 0, of length
\* max(minlength, max(xs) + 1); entry v counts the positions holding v
bincount(xs, minlength) ==
    LET len == IF Len(xs) = 0 THEN minlength
               ELSE Max2(minlength, SetMax({xs[k] : k \in 1..Len(xs)}) + 1)
    IN [v \in 0..(len - 1) |-> Cardinality({k \in 1..Len(xs) : xs[k] = v})]

\* a 0-indexed array as a sequence
AsSeq(a) == [k \in 1..Cardinality(DOMAIN a) |-> a[k - 1]]

\* the rows of match: the distinct (nucleus label, cell label) pairs of the
\* pixels, the pair (0, 0) left out
MatchRows(nuc_lab, cell_lab) ==
    {m \in {<<nuc_lab[i], cell_lab[i]>> : i \in 1..Len(nuc_lab)} :
        m[1] + m[2] # 0}

\* np.bincount(match[:, 1])
CellCounts(match) ==
    IF match = {} THEN <<>>
    ELSE LET maxc == SetMax({m[2] : m \in match})
         IN [k \in 1..(maxc + 1) |->
               Cardinality({m \in match : m[2] = k - 1})]

histogram_names(max_value) ==
    [k \in 1..(max_value + 1) |-> Name("cells-with-%i-nuclei", <<>>, <<k - 1>>)]
    \o <<Name("cells-with->%i-nuclei", <<>>, <<max_value>>)>>

\* fs[:(max_value + 1)] = nhist[:(max_value + 1)];
\* fs[max_value + 1] = np.sum(nhist[(max_value + 1):]); fs /= total
Proportions(nhist, max_value) ==
    [k \in 1..(max_value + 2) |->
        IF SumSeq(nhist) = 0 THEN 0
        ELSE (Float(1) * (IF k <= max_value + 1 THEN nhist[k]
                          ELSE SumSeq(SubSeq(nhist, max_value + 2, Len(nhist)))))
             \div SumSeq(nhist)]

HistogramOf(cells, nhist, max_value) ==
    [status |-> "ok",
     fs |-> Proportions(nhist, max_value),
     nan |-> (SumSeq(nhist) = 0),
     names |-> histogram_names(max_value),
     cells |-> cells]

CellsHistogram(cells, max_value) ==
    HistogramOf(cells, AsSeq(bincount(cells, max_value + 2)), max_value)

nuclei_per_cell_histogram(nuc_im, cell_im, max_value) ==
    CellsHistogram(CellCounts(MatchRows(label(nuc_im).lab, label(cell_im).lab)),
                   max_value)

-----------------------------------------------------------------------------
(* Inputs *)

Array(ndim, h, w, px) == [ndim |-> ndim, h |-> h, w |-> w, px |-> px]

\* every boolean single-row image of width 1..maxw
RowMasks(maxw) ==
    UNION {{Array(2, 1, w, px) : px \in [1..w -> BOOLEAN]} : w \in 1..maxw}

\* intensity images of a given shape: all dark, all bright, and two textures
Patterns == {"dark", "bright", "ramp", "steps"}
Intensity(ndim, h, w, pat) ==
    Array(ndim, h, w,
          [i \in 1..(h * w) |->
             CASE pat = "dark" -> 0
               [] pat = "bright" -> MaxVal
               [] pat = "ramp" -> i % (MaxVal + 1)
               [] OTHER -> (i \div 2) % (MaxVal + 1)])

\* two 5 x 5 blocks of different texture, a dark column between them
TwoBlobs ==
    Array(2, 5, 11,
          [i \in 1..55 |->
             LET r == (i - 1) \div 11
                 c == (i - 1) % 11
             IN IF c = 5 THEN 0
                ELSE IF c < 5 THEN 1 + (r % 2)
                ELSE MaxVal])

Images2D == {Intensity(2, 5, 5, "dark"), Intensity(2, 5, 5, "bright"), TwoBlobs}

WithNdim(a, ndim) == [a EXCEPT !.ndim = ndim]

\* the descriptor tables regionprops may return, the memory np.empty may
\* hold and the level of the local threshold surface: one of each per k
ShapeTable(k) ==
    [j \in 1..(MaxW + 1) |->
        [prop \in {"eccentricity", "euler_number", "extent", "solidity"} |->
            CASE prop = "eccentricity" -> 400 * ((k + j) % 3)
              [] prop = "euler_number" -> Milli * (1 - ((k + j) % 2))
              [] prop = "extent" -> Milli \div (1 + ((k + j) % 2))
              [] OTHER -> Milli \div (1 + (k % 2))]]
JunkTable(k) ==
    [q \in 1..Len(DefaultQuantiles) |-> [c \in 1..8 |-> k * (7 * q + c)]]
Oracle(k, random_seed) ==
    [stream |-> RandomState(random_seed), shape |-> ShapeTable(k),
     junk |-> JunkTable(k), level |-> k]
OracleIds == {0, 1}

SampleSizes == {None} \cup 1..MaxSample
\* the seeds that matter: one when nothing is drawn
Seeds(sample_size) == IF sample_size = None THEN {0} ELSE 0..MaxSeed

\* the arrays object_features is applied to: single rows as 2-D images, the
\* narrow ones also as 1-D and as 3-D arrays, and the masks of Images2D
ObjectInputs ==
    RowMasks(MaxW)
    \cup {WithNdim(b, d) : b \in RowMasks(3), d \in {1, 3}}
    \cup {Above(a, 0) : a \in Images2D}

\* the images intensity_object_features is applied to
IntensityInputs ==
    {Intensity(d, 1, w, pat) : d \in 1..3, w \in 1..MaxW, pat \in Patterns}
    \cup Images2D
ScalarThresholds == {NoThreshold} \cup {Scalar(t) : t \in 0..(MaxVal - 1)}

\* pairs of boolean images of one shape: single rows, and the two masks of
\* the example in fraction_positive's docstring
DocBin == Array(2, 3, 3, <<TRUE, TRUE, FALSE, FALSE, FALSE, FALSE, TRUE, TRUE, TRUE>>)
DocPos == Array(2, 3, 3, <<TRUE, FALSE, FALSE, FALSE, TRUE, TRUE, FALSE, TRUE, TRUE>>)
MaskPairs ==
    {pr \in RowMasks(MaxPairW) \X RowMasks(MaxPairW) : pr[1].w = pr[2].w}
    \cup {<<DocBin, DocPos>>}
\* the default overlap_thresh and the docstring's, in hundredths
OverlapThresholds == {90, 60}

\* multi-channel images: C channels of one shape (a row no wider than the
\* number of channels allowed, or 5 x 5), channel c textured by its position
PatternSeq == <<"ramp", "bright", "steps", "dark">>
MultiChannel(C, h, w, r) ==
    [c \in 1..C |-> Intensity(2, h, w, PatternSeq[((c + r) % 4) + 1])]
MultiChannelImages ==
    {MultiChannel(C, sh[1], sh[2], r) :
        C \in 1..MaxChan, r \in 0..1,
        sh \in {<<1, w>> : w \in 1..MaxChan} \cup {<<5, 5>>}}
\* threshold=None, or one threshold per channel
TupleThresholds(C) ==
    {NoThreshold} \cup
    {Tuple([c \in 1..C |-> (c + s) % MaxVal]) : s \in 0..1}
\* channels=None, or the channels of a non-empty subset in increasing order
ChannelLists(C) ==
    {NoList} \cup {List(SetToSeq(S)) : S \in SUBSET (0..(C - 1)) \ {{}}}
\* channel_names=None, or a list of one to MaxChan names
ChannelNames == <<Str("dapi"), Str("actin"), Str("tubulin"), Str("tf")>>
ChannelNameLists ==
    {NoList} \cup {List(SubSeq(ChannelNames, 1, m)) : m \in 1..MaxChan}

-----------------------------------------------------------------------------
(* The caller: one action per extractor, applied to inputs chosen from the  *)
(* sets above, then Return.                                                 *)

Returned(frame) ==
    [status |-> frame.status, fs |-> frame.fs, names |-> frame.names]

Init ==
    /\ pc = "idle"
    /\ call = "none"
    /\ args = <<>>
    /\ ret = Raise("none")
    /\ loc = <<>>

\* the intensity image given with a mask
\* four objects in a row: enough for n = 3 neighbours
FourObjects == Array(2, 1, 7, <<TRUE, FALSE, TRUE, FALSE, TRUE, FALSE, TRUE>>)

ImageFor(bin_im) ==
    IF bin_im.h > 1 THEN TwoBlobs
    ELSE Intensity(bin_im.ndim, bin_im.h, bin_im.w, "ramp")

ObjectFeatures ==
    /\ pc = "idle"
    /\ \E bin_im \in ObjectInputs, erode \in {0, DefaultErode},
          sample_size \in SampleSizes, k \in OracleIds :
       \E random_seed \in Seeds(sample_size) :
          /\ args' = [bin_im |-> bin_im, im |-> ImageFor(bin_im),
                      erode |-> erode, sample_size |-> sample_size, k |-> k,
                      random_seed |-> random_seed]
          /\ loc' = object_features(bin_im, ImageFor(bin_im), erode,
                                    sample_size, Oracle(k, random_seed))
    /\ call' = "object_features"
    /\ ret' = Returned(loc')
    /\ pc' = "done"

IntensityObjectFeatures ==
    /\ pc = "idle"
    /\ \E im \in IntensityInputs, threshold \in ScalarThresholds,
          sample_size \in SampleSizes, k \in OracleIds :
       \E random_seed \in Seeds(sample_size) :
          /\ args' = [im |-> im, threshold |-> threshold,
                      sample_size |-> sample_size, k |-> k,
                      random_seed |-> random_seed]
          /\ loc' = intensity_object_features(im, threshold, sample_size,
                                              Oracle(k, random_seed))
    /\ call' = "intensity_object_features"
    /\ ret' = Returned(loc')
    /\ pc' = "done"

NearestNeighbors ==
    /\ pc = "idle"
    /\ \E lab_im \in RowMasks(MaxW) \cup {FourObjects}, n \in 1..MaxN,
          quantiles \in {DefaultQuantiles, <<25, 75>>} :
       \E ties \in [1..label(lab_im).n -> BOOLEAN] :
          /\ args' = [lab_im |-> lab_im, n |-> n, quantiles |-> quantiles,
                      ties |-> ties]
          /\ loc' = nearest_neighbors(lab_im, n, quantiles, ties)
    /\ call' = "nearest_neighbors"
    /\ ret' = Returned(loc')
    /\ pc' = "done"

FractionPositive ==
    /\ pc = "idle"
    /\ \E pr \in MaskPairs, erode \in {0, DefaultErode},
          overlap_thresh \in OverlapThresholds :
          /\ args' = [bin_im |-> pr[1], positive_im |-> pr[2],
                      erode |-> erode, overlap_thresh |-> overlap_thresh]
          /\ loc' = fraction_positive(pr[1], pr[2], erode, overlap_thresh)
    /\ call' = "fraction_positive"
    /\ ret' = Returned(loc')
    /\ pc' = "done"

NucleiPerCellHistogram ==
    /\ pc = "idle"
    /\ \E pr \in MaskPairs, max_value \in 0..MaxMaxValue :
          /\ args' = [nuc_im |-> pr[1], cell_im |-> pr[2],
                      max_value |-> max_value]
          /\ loc' = nuclei_per_cell_histogram(pr[1], pr[2], max_value)
    /\ call' = "nuclei_per_cell_histogram"
    /\ ret' = Returned(loc')
    /\ pc' = "done"

DefaultFeatureMap ==
    /\ pc = "idle"
    /\ \E image \in MultiChannelImages, channel_names \in ChannelNameLists,
          sample_size \in {None, 1}, k \in OracleIds :
       \E threshold \in TupleThresholds(Len(image)),
          channels \in ChannelLists(Len(image)) :
          /\ args' = [image |-> image, threshold |-> threshold,
                      channels |-> channels, channel_names |-> channel_names,
                      sample_size |-> sample_size, k |-> k]
          /\ loc' = default_feature_map(image, threshold, channels,
                                        channel_names, sample_size,
                                        Oracle(k, 0))
    /\ call' = "default_feature_map"
    /\ ret' = Returned(loc')
    /\ pc' = "done"

Return ==
    /\ pc = "done"
    /\ pc' = "idle"
    /\ call' = "none"
    /\ args' = <<>>
    /\ ret' = Raise("none")
    /\ loc' = <<>>

Next ==
    \/ ObjectFeatures
    \/ IntensityObjectFeatures
    \/ NearestNeighbors
    \/ FractionPositive
    \/ NucleiPerCellHistogram
    \/ DefaultFeatureMap
    \/ Return

Spec == Init /\ [][Next]_vars

-----------------------------------------------------------------------------
(* What the claims are stated in *)

Returns == pc = "done" /\ ret.status = "ok"

\* the place of column c in a list of columns
ColIndex(cols, c) == CHOOSE k \in 1..Len(cols) : cols[k] = c

\* the value a vector holds where the name says (column c, quantile q) is
\* quantile q of column c of the table
NamedQuantiles(fs, names, first, table, cols) ==
    \A i \in first..Len(fs) :
        fs[i] = Quantile(Column(table, ColIndex(cols, names[i].strs[1])),
                         names[i].nums[1])

\* the objects nd.label finds in a mask opened with radius erode
ObjectsFound(bin_im, erode) ==
    IF erode > 0 THEN label(binary_opening(bin_im, erode)).n
    ELSE label(bin_im).n

\* the count features are 0 and the other features share one value
NeutralVector(fs, names) ==
    /\ \A i \in 1..Len(fs) : names[i].fmt = "num-objs" => fs[i] = 0
    /\ \A i, j \in 1..Len(fs) :
          names[i].fmt # "num-objs" /\ names[j].fmt # "num-objs"
             => fs[i] = fs[j]

\* C1: in the output of object_features and of nearest_neighbors, the value
\* at the position named for (column c, quantile q) is the q-quantile of
\* column c of the table the quantiles were taken of.
C1_NamedValueIsQuantile ==
    /\ (Returns /\ call = "object_features" /\ loc.n_objs > 0)
          => NamedQuantiles(ret.fs, ret.names, 2, loc.properties,
                            [c \in 1..Len(loc.props) |-> Str(loc.props[c])])
    /\ (Returns /\ call = "nearest_neighbors")
          => NamedQuantiles(ret.fs, ret.names, 1, loc.features, loc.colnames)

\* C2: whenever an extractor returns, its feature vector and its list of
\* names have the same length.
C2_SameLength == Returns => Len(ret.fs) = Len(ret.names)

\* a concatenation of two channels, each of two threshold blocks, returned
C2_Witness ==
    /\ Returns
    /\ call = "default_feature_map"
    /\ Len(loc.blocks) = 2
    /\ Len(loc.blocks[1].blocks) = 2
    /\ Len(ret.names) = 4 * 41

\* C3: object_features, and intensity_object_features with a given
\* threshold, on an image in which no object is found, return a vector whose
\* count is 0 and whose quantile features all have one value, with or
\* without a sample_size.
C3_NoObjectsIsNeutral ==
    /\ (pc = "done" /\ call = "object_features"
          /\ args.im.ndim \in {2, 3}
          /\ ObjectsFound(args.bin_im, args.erode) = 0)
          => ret.status = "ok" /\ NeutralVector(ret.fs, ret.names)
    /\ (pc = "done" /\ call = "intensity_object_features"
          /\ args.im.ndim \in {2, 3}
          /\ args.threshold.kind = "scalar"
          /\ ObjectsFound(Above(args.im, args.threshold.v[1]), DefaultErode) = 0)
          => ret.status = "ok" /\ NeutralVector(ret.fs, ret.names)

\* C4: when default_feature_map is given one threshold per channel and
\* returns, the mask of every channel it processed is that channel's pixels
\* above that channel's own threshold.
C4_OwnThreshold ==
    (Returns /\ call = "default_feature_map" /\ args.threshold.kind = "tuple")
       => \A k \in 1..Len(loc.blocks) :
             loc.blocks[k].tims[1] =
                Above(args.image[loc.channels[k] + 1],
                      args.threshold.v[loc.channels[k] + 1])

\* the sub-objects (labels >= 1) that overlap container c
SubObjectsIn(nuc_lab, cell_lab, c) ==
    {nuc_lab[i] : i \in {j \in 1..Len(cell_lab) : cell_lab[j] = c}} \ {0}

\* the proportion, in the fixed-point unit, of the containers 1..n that
\* satisfy P
Proportion(n, P(_)) == (Float(1) * Cardinality({c \in 1..n : P(c)})) \div n

\* C5: with at least one container, entry k of the histogram is the
\* proportion of containers overlapped by exactly k sub-objects, and the
\* last entry the proportion overlapped by more than max_value.
C5_ProportionOfContainers ==
    (pc = "done" /\ call = "nuclei_per_cell_histogram"
        /\ label(args.cell_im).n >= 1)
       => LET nuc_lab == label(args.nuc_im).lab
              cell_lab == label(args.cell_im).lab
              n == label(args.cell_im).n
              count(c) == Cardinality(SubObjectsIn(nuc_lab, cell_lab, c))
              exactly(k) == LET P(c) == count(c) = k IN Proportion(n, P)
              over == LET P(c) == count(c) > args.max_value
                      IN Proportion(n, P)
          IN /\ ret.status = "ok"
             /\ ~loc.nan
             /\ ret.fs = [k \in 1..(args.max_value + 2) |->
                            IF k <= args.max_value + 1 THEN exactly(k - 1)
                            ELSE over]

\* the reference objects of which more than overlap_thresh / 100 of the
\* pixels lie in the positive mask
PositiveObjects(bin_im, positive_im, overlap_thresh) ==
    {c \in 1..label(bin_im).n :
        LET pix == {i \in 1..Size(bin_im) : label(bin_im).lab[i] = c}
        IN 100 * Cardinality({i \in pix : positive_im.px[i]})
              > overlap_thresh * Cardinality(pix)}

\* C6: with erode = 0 and a reference mask of at least one object,
\* fraction_positive returns the number of positive reference objects over
\* the number of reference objects, whatever the positive mask.
C6_FractionOfObjects ==
    (pc = "done" /\ call = "fraction_positive" /\ args.erode = 0
        /\ label(args.bin_im).n >= 1)
       => /\ ret.status = "ok"
          /\ ~loc.nan
          /\ ret.fs = <<(Float(1) * Cardinality(PositiveObjects(args.bin_im,
                             args.positive_im, args.overlap_thresh)))
                        \div label(args.bin_im).n>>

\* C7: on a reference mask without objects, fraction_positive returns the
\* value 0.0: it neither raises nor returns NaN.
C7_NoObjectsIsZero ==
    (pc = "done" /\ call = "fraction_positive" /\ label(args.bin_im).n = 0)
       => ret.status = "ok" /\ ~loc.nan /\ ret.fs = <<0>>

\* the channels default_feature_map is asked for
SelectedChannels ==
    IF args.channels.kind = "none" THEN AllChannels(args.image)
    ELSE args.channels.v

\* the identifier of the k-th selected channel
ChannelId(k) ==
    IF args.channel_names.kind = "none" THEN Fmt("chan{}", SelectedChannels[k])
    ELSE args.channel_names.v[k]

\* what intensity_object_features gives for the k-th selected channel
ChannelOutput(k) ==
    intensity_object_features(args.image[SelectedChannels[k] + 1],
                              args.threshold, args.sample_size,
                              Oracle(args.k, 0))

\* C8: the output of default_feature_map is one block per selected channel,
\* in channel order: its length is the sum of the per-channel lengths over
\* every selected channel, and every name of the k-th block is prefixed by
\* the identifier of the k-th selected channel.
C8_BlockPerChannel ==
    (Returns /\ call = "default_feature_map")
       => /\ Len(ret.fs) =
                SumSeq([k \in 1..Len(SelectedChannels) |->
                           Len(ChannelOutput(k).fs)])
          /\ \A k \in 1..Len(SelectedChannels) :
                /\ Len(args.channel_names.v) >= k
                      \/ args.channel_names.kind = "none"
                /\ \A i \in 1..Len(ChannelOutput(k).fs) :
                      LET at == i + SumSeq([m \in 1..(k - 1) |->
                                              Len(ChannelOutput(m).fs)])
                      IN /\ at <= Len(ret.names)
                         /\ Head(ret.names[at].prefix) = ChannelId(k)

\* C9: on an image with fewer than n + 1 objects nearest_neighbors raises:
\* it returns no vector.
C9_TooFewObjectsRaises ==
    (pc = "done" /\ call = "nearest_neighbors"
        /\ label(args.lab_im).n < args.n + 1)
       => ret.status # "ok"

\* objects are there, but fewer than n + 1: the call raised
C9_Witness ==
    /\ pc = "done"
    /\ call = "nearest_neighbors"
    /\ args.n = 3
    /\ label(args.lab_im).n = 3
    /\ ret.status = "ValueError"

\* C10: for n >= 1 and an image with at least n + 1 objects,
\* nearest_neighbors returns.
C10_EnoughObjectsReturns ==
    (pc = "done" /\ call = "nearest_neighbors" /\ args.n >= 1
        /\ label(args.lab_im).n >= args.n + 1)
       => ret.status = "ok"

====
